---- MODULE Spec2Model ----
\* Windows-Services-Manager: the Service Manager (manager.go), its status cache
\* (cache.go) and the OS service registrar it drives, as a state machine.
\*
\* Time is counted in ticks of 500 ms (the poll interval of waitForServiceState).
\* The code compares the clock only with instants it took from the clock earlier
\* (a cache entry's Timestamp, the deadline of a wait, the end of the auto-start
\* delay), so the state keeps each of these as a distance from the present: an
\* entry's age, the time left to a deadline. The clock itself is read by
\* generateServiceName alone.
\* Every call to the OS (SCM or registry) may fail; the registrar's service states
\* change on their own between two steps of a Manager operation.
EXTENDS Integers, Sequences, FiniteSets, Bags, TLC

\* ------------------------------------------------------------------ bounds
NThreads == 2
MaxSvcs == 1
MaxNow == 3
MaxOps == 3
MaxAsync == 1
MaxRequests == 2
MaxReports == 5
MaxLaunches == 2

\* ------------------------------------------------------- program constants
PollInterval == 1
WaitTimeout == 60
AutoStartDelay == 2
CacheTTL == 10

Threads == 1..NThreads
Pids == {7, 8}
ExistingExes == {"C:/app/run.exe"}
CurrentExe == "C:/wsm/wsm.exe"

\* display names are sequences of characters
Configs ==
  { [Name |-> <<"a", " ">>, ExePath |-> "C:/app/run.exe", Args |-> "", WorkingDir |-> ""],
    [Name |-> <<"a", "_">>, ExePath |-> "C:/app/run.exe", Args |-> "-x", WorkingDir |-> "D:/wd"],
    [Name |-> <<"a", " ">>, ExePath |-> "C:/gone.exe", Args |-> "", WorkingDir |-> ""] }

NoId == <<>>
NoCfg == [Name |-> <<>>, ExePath |-> "", Args |-> "", WorkingDir |-> ""]

VARIABLES
  now,        \* the clock, in ticks of 500 ms (exact up to MaxNow)
  osSvc,      \* the OS service registrar: id -> service object (with its registry key)
  services,   \* wsm.services
  cache,      \* wsm.statusCache.cache
  snapshot,   \* content of wsm.dataFile
  writer,     \* wsm.mutex: the thread holding it exclusively, or 0
  readers,    \* wsm.mutex: the threads holding it shared
  pc,         \* position of each thread
  loc,        \* locals of the operation each thread runs
  autoStarts, \* deferred auto-start goroutines: [id, at]
  asyncSaves, \* `go wsm.saveServices()` goroutines: those launched, and the data
              \* marshalled by those that have not written the file yet
  calls       \* the number of operations called so far

vars == <<now, osSvc, services, cache, snapshot, writer, readers, pc, loc, autoStarts, asyncSaves, calls>>

\* ------------------------------------------------------------------ helpers
Remove(f, k) == [x \in DOMAIN f \ {k} |-> f[x]]
Put(f, k, v) == [x \in DOMAIN f \cup {k} |-> IF x = k THEN v ELSE f[x]]

UnixSec(t) == t \div 2

IsAlnum(c) == c \in {"a", "b", "A", "0"}
CleanName(name) == [i \in 1..Len(name) |-> IF IsAlnum(name[i]) THEN name[i] ELSE "_"]
generateServiceName(displayName, t) == <<"WSM", CleanName(displayName), UnixSec(t)>>

FilepathDir(p) == IF p = "C:/app/run.exe" THEN "C:/app" ELSE IF p = "C:/gone.exe" THEN "C:/" ELSE "."
DefaultWorkingDir(cfg) == IF cfg.WorkingDir = "" THEN FilepathDir(cfg.ExePath) ELSE cfg.WorkingDir

\* binaryPath of CreateService, and the wrapper path of createServiceWrapper
TargetBinaryPath(cfg) == IF cfg.Args # "" THEN <<"quoted", cfg.ExePath, cfg.Args>> ELSE <<"plain", cfg.ExePath>>
WrapperPath(id) == <<"quoted", CurrentExe, "--service-wrapper", id>>

\* ToJSON leaving the arguments out
ToJSONOmitsArgs(s) == [id |-> s.ID, name |-> s.Name, exePath |-> s.ExePath, args |-> "",
                       workingDir |-> s.WorkingDir, status |-> s.Status, pid |-> s.PID,
                       autoStart |-> s.AutoStart]
\* encoding/json of the service map, by the struct tags of Service
ToJSON(s) == [id |-> s.ID, name |-> s.Name, exePath |-> s.ExePath, args |-> s.Args,
              workingDir |-> s.WorkingDir, status |-> s.Status, pid |-> s.PID,
              autoStart |-> s.AutoStart]
saveServices(m) == [id \in DOMAIN m |-> ToJSON(m[id])]

\* json.Unmarshal of the snapshot into the empty map of a new Manager
FromJSON(j) == [ID |-> j.id, Name |-> j.name, ExePath |-> j.exePath, Args |-> j.args,
                WorkingDir |-> j.workingDir, Status |-> j.status, PID |-> j.pid,
                AutoStart |-> j.autoStart]
loadServices(snap) == [id \in DOMAIN snap |-> FromJSON(snap[id])]

StatusEvent(id, status, pid) == [type |-> "service-status-changed", id |-> id, status |-> status, pid |-> pid, ids |-> {}]
ListEvent(m) == [type |-> "services-updated", id |-> NoId, status |-> "", pid |-> 0, ids |-> DOMAIN m]

\* a cache entry, with Age = time.Since(Timestamp)
CacheEntry(status, pid) == [Status |-> status, PID |-> pid, Age |-> 0]
\* Get without the check of the age
CacheHitNoExpiry(id) == id \in DOMAIN cache
\* Get finds a live entry: time.Since(Timestamp) > ttl is a miss
CacheHit(id) == id \in DOMAIN cache /\ ~(cache[id].Age > CacheTTL)

Min(a, b) == IF a < b THEN a ELSE b
Max(a, b) == IF a > b THEN a ELSE b

\* d ticks pass: the clock, the ages in the cache (all ages beyond the TTL are
\* alike), the auto-start delays still to sleep and the time left to deadlines
AdvanceClock(d) == now' = Min(now + d, MaxNow)
AdvanceCache(c, d) == [id \in DOMAIN c |-> [c[id] EXCEPT !.Age = Min(@ + d, CacheTTL + 1)]]
AdvanceTasks(d) == autoStarts' = {[task EXCEPT !.delay = Max(@ - d, 0)] : task \in autoStarts}
AdvanceLoc(lc, d) == [t \in Threads |-> [lc[t] EXCEPT !.left = Max(@ - d, 0)]]

Loc0 == [op |-> "none", id |-> NoId, cfg |-> NoCfg, err |-> "", target |-> "none",
         left |-> 0, polls |-> 0, obs |-> "none", obsPid |-> 0, ctl |-> 0, starts |-> 0,
         emitted |-> <<>>, saved |-> FALSE, session |-> FALSE, handle |-> FALSE,
         pre |-> <<>>, todo |-> {}, wdFailed |-> FALSE, rollback |-> "none",
         lastQuery |-> "none", conn |-> FALSE, enabled |-> FALSE]

\* wsm.mutex.Lock() can be taken
LockIgnored == TRUE
LockFree == writer = 0 /\ readers = {}

\* no goroutine of GetServices is on its way
NoAsyncSave == [launched |-> 0, bufs |-> EmptyBag, writing |-> EmptyBag]

\* a caller starts an operation once the results of the finished ones were
\* taken; callers are interchangeable, so a call is made on the first free thread
Free(t) == pc[t] = "idle" /\ \A u \in Threads : pc[u] # "done" /\ (u < t => pc[u] # "idle")

\* a caller calls an operation
Idle(t) ==
  /\ Free(t)
  /\ calls < MaxOps
  /\ calls' = calls + 1

Init ==
  /\ now = 0
  /\ osSvc = <<>>
  /\ services = <<>>
  /\ cache = <<>>
  /\ snapshot = <<>>
  /\ writer = 0
  /\ readers = {}
  /\ pc = [t \in Threads |-> "idle"]
  /\ loc = [t \in Threads |-> Loc0]
  /\ autoStarts = {}
  /\ asyncSaves = NoAsyncSave
  /\ calls = 0

\* a return without the deferred Unlock
DoneKeepsLock(t, l) ==
  /\ pc' = [pc EXCEPT ![t] = "done"]
  /\ loc' = [loc EXCEPT ![t] = [l EXCEPT !.session = FALSE, !.handle = FALSE]]
  /\ writer' = t

\* a return that leaves the session and the handle as they are
DoneNoDefer(t, l) ==
  /\ pc' = [pc EXCEPT ![t] = "done"]
  /\ loc' = [loc EXCEPT ![t] = l]
  /\ writer' = 0

\* a mutating operation returns: the deferred Close, Disconnect and Unlock run
Done(t, l) ==
  /\ pc' = [pc EXCEPT ![t] = "done"]
  /\ loc' = [loc EXCEPT ![t] = [l EXCEPT !.session = FALSE, !.handle = FALSE]]
  /\ writer' = 0

Goto(t, label, l) ==
  /\ pc' = [pc EXCEPT ![t] = label]
  /\ loc' = [loc EXCEPT ![t] = l]
  /\ writer' = t

\* the caller takes the result; the thread is free again
Return(t) ==
  /\ pc[t] = "done"
  /\ pc' = [pc EXCEPT ![t] = "idle"]
  /\ loc' = [loc EXCEPT ![t] = Loc0]
  /\ UNCHANGED <<now, osSvc, services, cache, snapshot, writer, readers, autoStarts, asyncSaves, calls>>

\* ------------------------------------------------------------ the Host
\* what a Host launched for the service reads from the Config Store: ExePath
\* must be there, a missing Args, WorkingDir or StdoutLog is empty, and a
\* missing DisplayName is the service id
NoParams == [err |-> "failed to open service configuration registry"]
LoadServiceConfigFromRegistry(reg, serviceName) ==
  IF serviceName \notin DOMAIN reg
    THEN NoParams
  ELSE LET key == reg[serviceName].Params
           Value(name, default) == IF name \in DOMAIN key THEN key[name] ELSE default
       IN IF "ExePath" \notin DOMAIN key
            THEN [err |-> "failed to read ExePath"]
            ELSE [err |-> "ok",
                  Name |-> Value("DisplayName", serviceName),
                  ExePath |-> key["ExePath"],
                  Args |-> Value("Args", ""),
                  WorkingDir |-> Value("WorkingDir", ""),
                  LogPath |-> Value("StdoutLog", "")]

\* the wrapper object of a Host process: its control loop's position (pc), the
\* child process, the running flag, the log file, the supervision task, the
\* control requests the library holds for it (r), the states it reported, and
\* how often the registrar has launched a Host for the service
NewEmbeddedServiceWrapper(serviceName, config) ==
  [pc |-> "execute", serviceName |-> serviceName, config |-> config,
   process |-> "nil", isRunning |-> FALSE, logFile |-> FALSE, monitor |-> "none",
   r |-> <<>>, reported |-> <<>>, launches |-> 0]

\* no Host process was launched for the service yet
NoHost == [NewEmbeddedServiceWrapper(NoId, NoParams) EXCEPT !.pc = "none"]

\* ------------------------------------------------------------ CreateService
\* the registry writes of storeServiceConfigInRegistry, in order
StoreWrites(cfg, wd) ==
  <<<<"ExePath", cfg.ExePath>>>>
    \o (IF cfg.Args # "" THEN <<<<"Args", cfg.Args>>>> ELSE <<>>)
    \o (IF wd # "" THEN <<<<"WorkingDir", wd>>>> ELSE <<>>)

\* the Parameters key after the first n writes of W succeeded
ApplyWrites(params, W, n) ==
  [k \in DOMAIN params \cup {W[i][1] : i \in 1..n} |->
     IF \E i \in 1..n : W[i][1] = k
       THEN W[CHOOSE i \in 1..n : W[i][1] = k][2]
       ELSE params[k]]

\* windowsService.Delete() of the rollback; its error is not looked at
RollbackDelete(reg, id, ok) == IF ok THEN Remove(reg, id) ELSE reg

\* CreateService connecting to the registrar before it validates
CreateBeginConnectsFirst(t, cfg) ==
  LET id == generateServiceName(cfg.Name, now)
      l  == [Loc0 EXCEPT !.op = "create", !.id = id, !.cfg = cfg, !.pre = services, !.conn = TRUE]
  IN
  /\ Idle(t)
  /\ LockFree
  /\ now < MaxNow
  /\ \E ok \in BOOLEAN :
       IF ~ok THEN Done(t, [l EXCEPT !.err = "failed to connect"])
       ELSE IF cfg.ExePath \notin ExistingExes
         THEN Done(t, [l EXCEPT !.err = "executable does not exist"])
       ELSE IF id \in DOMAIN services
         THEN Done(t, [l EXCEPT !.err = "service name already exists"])
       ELSE Goto(t, "cr_create", [l EXCEPT !.session = TRUE])
  /\ UNCHANGED <<now, osSvc, services, cache, snapshot, readers, autoStarts, asyncSaves>>

\* CreateService without the check of the map
CreateBeginNoMapCheck(t, cfg) ==
  LET id == generateServiceName(cfg.Name, now)
      l  == [Loc0 EXCEPT !.op = "create", !.id = id, !.cfg = cfg, !.pre = services]
  IN
  /\ Idle(t)
  /\ LockFree
  /\ now < MaxNow
  /\ IF cfg.ExePath \notin ExistingExes
       THEN Done(t, [l EXCEPT !.err = "executable does not exist"])
       ELSE \E ok \in BOOLEAN :
              IF ok THEN Goto(t, "cr_create", [l EXCEPT !.conn = TRUE, !.session = TRUE])
                    ELSE Done(t, [l EXCEPT !.conn = TRUE, !.err = "failed to connect"])
  /\ UNCHANGED <<now, osSvc, services, cache, snapshot, readers, autoStarts, asyncSaves>>

\* Lock, os.Stat, generateServiceName, the map check, mgr.Connect
CreateBegin(t, cfg) ==
  LET id == generateServiceName(cfg.Name, now)
      l  == [Loc0 EXCEPT !.op = "create", !.id = id, !.cfg = cfg, !.pre = services]
  IN
  /\ Idle(t)
  /\ LockFree
  /\ now < MaxNow
  /\ \/ cfg.ExePath \notin ExistingExes
     \/ id \in DOMAIN services
     \/ Cardinality(DOMAIN osSvc) < MaxSvcs
  /\ IF cfg.ExePath \notin ExistingExes
       THEN Done(t, [l EXCEPT !.err = "executable does not exist"])
       ELSE IF id \in DOMAIN services
         THEN Done(t, [l EXCEPT !.err = "service name already exists"])
         ELSE \E ok \in BOOLEAN :
                IF ok THEN Goto(t, "cr_create", [l EXCEPT !.conn = TRUE, !.session = TRUE])
                      ELSE Done(t, [l EXCEPT !.conn = TRUE, !.err = "failed to connect"])
  /\ UNCHANGED <<now, osSvc, services, cache, snapshot, readers, autoStarts, asyncSaves>>

\* CreateService registering the service with the wrapper path at once
CreateOsServiceWrapperFirst(t) ==
  LET l == loc[t] IN
  /\ pc[t] = "cr_create"
  /\ \E ok \in BOOLEAN :
       IF ok /\ l.id \notin DOMAIN osSvc
         THEN /\ osSvc' = Put(osSvc, l.id,
                    [BinaryPath |-> WrapperPath(l.id), StartType |-> "automatic",
                     DisplayName |-> l.cfg.Name, State |-> "Stopped", ProcessId |-> 0,
                     Params |-> <<>>, Host |-> NoHost])
              /\ Goto(t, "cr_wrapper", [l EXCEPT !.handle = TRUE])
         ELSE /\ osSvc' = osSvc
              /\ Done(t, [l EXCEPT !.err = "failed to create Windows service"])
  /\ UNCHANGED <<now, services, cache, snapshot, readers, autoStarts, asyncSaves, calls>>

\* scm.CreateService(serviceName, binaryPath, serviceConfig)
CreateOsService(t) ==
  LET l == loc[t] IN
  /\ pc[t] = "cr_create"
  /\ \E ok \in BOOLEAN :
       IF ok /\ l.id \notin DOMAIN osSvc
         THEN /\ osSvc' = Put(osSvc, l.id,
                    [BinaryPath |-> TargetBinaryPath(l.cfg), StartType |-> "automatic",
                     DisplayName |-> l.cfg.Name, State |-> "Stopped", ProcessId |-> 0,
                     Params |-> <<>>, Host |-> NoHost])
              /\ Goto(t, "cr_wrapper", [l EXCEPT !.handle = TRUE])
         ELSE /\ osSvc' = osSvc
              /\ Done(t, [l EXCEPT !.err = "failed to create Windows service"])
  /\ UNCHANGED <<now, services, cache, snapshot, readers, autoStarts, asyncSaves, calls>>

\* the record CreateService builds
NewService(id, cfg) ==
  [ID |-> id, Name |-> cfg.Name, ExePath |-> cfg.ExePath, Args |-> cfg.Args,
   WorkingDir |-> DefaultWorkingDir(cfg), Status |-> "stopped", PID |-> 0, AutoStart |-> FALSE]

\* CreateService inserting the record before the wrapper is set up
CreateWrapperAfterInsert(t) ==
  LET l == loc[t]
      W == StoreWrites(l.cfg, DefaultWorkingDir(l.cfg))
  IN
  /\ pc[t] = "cr_wrapper"
  /\ services' = Put(services, l.id, NewService(l.id, l.cfg))
  /\ \E n \in 0..Len(W), del \in BOOLEAN :
       LET stored == [osSvc EXCEPT ![l.id].Params = ApplyWrites(@, W, n)] IN
       IF n = Len(W)
         THEN /\ osSvc' = stored
              /\ Goto(t, "cr_image", l)
         ELSE /\ osSvc' = RollbackDelete(stored, l.id, del)
              /\ Done(t, [l EXCEPT !.err = "failed to create service wrapper",
                                   !.rollback = IF del THEN "deleted" ELSE "failed"])
  /\ UNCHANGED <<now, cache, snapshot, readers, autoStarts, asyncSaves, calls>>

\* createServiceWrapper: the launch parameters go to the Config Store
CreateWrapper(t) ==
  LET l == loc[t]
      W == StoreWrites(l.cfg, DefaultWorkingDir(l.cfg))
  IN
  /\ pc[t] = "cr_wrapper"
  /\ \E n \in 0..Len(W), del \in BOOLEAN :
       LET stored == [osSvc EXCEPT ![l.id].Params = ApplyWrites(@, W, n)] IN
       IF n = Len(W)
         THEN /\ osSvc' = stored
              /\ Goto(t, "cr_image", l)
         ELSE /\ osSvc' = RollbackDelete(stored, l.id, del)
              /\ Done(t, [l EXCEPT !.err = "failed to create service wrapper",
                                   !.rollback = IF del THEN "deleted" ELSE "failed"])
  /\ UNCHANGED <<now, services, cache, snapshot, readers, autoStarts, asyncSaves, calls>>

\* setServiceImagePathDirect(serviceName, wrapperPath)
CreateImagePath(t) ==
  LET l == loc[t] IN
  /\ pc[t] = "cr_image"
  /\ \E ok \in BOOLEAN, del \in BOOLEAN :
       IF ok
         THEN /\ osSvc' = [osSvc EXCEPT ![l.id].BinaryPath = WrapperPath(l.id)]
              /\ Goto(t, "cr_workdir", l)
         ELSE /\ osSvc' = RollbackDelete(osSvc, l.id, del)
              /\ Done(t, [l EXCEPT !.err = "failed to set service path",
                                   !.rollback = IF del THEN "deleted" ELSE "failed"])
  /\ UNCHANGED <<now, services, cache, snapshot, readers, autoStarts, asyncSaves, calls>>

\* CreateService with a failed setServiceWorkingDirectory rolled back
CreateWorkDirRollsBack(t) ==
  LET l == loc[t] IN
  /\ pc[t] = "cr_workdir"
  /\ \E ok \in BOOLEAN, del \in BOOLEAN :
       IF ok
         THEN /\ osSvc' = [osSvc EXCEPT ![l.id].Params = Put(@, "AppDirectory", DefaultWorkingDir(l.cfg))]
              /\ services' = Put(services, l.id, NewService(l.id, l.cfg))
              /\ snapshot' = saveServices(services')
              /\ autoStarts' = autoStarts \cup {[id |-> l.id, delay |-> AutoStartDelay]}
              /\ Done(t, [l EXCEPT !.err = "ok", !.saved = TRUE,
                                   !.emitted = Append(@, ListEvent(services'))])
         ELSE /\ osSvc' = RollbackDelete(osSvc, l.id, del)
              /\ Done(t, [l EXCEPT !.err = "failed to set working directory", !.wdFailed = TRUE,
                                   !.rollback = IF del THEN "deleted" ELSE "failed"])
              /\ UNCHANGED <<services, snapshot, autoStarts>>
  /\ UNCHANGED <<now, cache, readers, asyncSaves, calls>>

\* CreateService starting the service itself before it returns
CreateWorkDirStartsService(t) ==
  LET l == loc[t] IN
  /\ pc[t] = "cr_workdir"
  /\ \E ok \in BOOLEAN, p \in Pids :
       /\ osSvc' = [(IF ok THEN [osSvc EXCEPT ![l.id].Params = Put(@, "AppDirectory", DefaultWorkingDir(l.cfg))]
                          ELSE osSvc)
                      EXCEPT ![l.id].State = "StartPending", ![l.id].ProcessId = p]
       /\ services' = Put(services, l.id, NewService(l.id, l.cfg))
       /\ snapshot' = saveServices(services')
       /\ autoStarts' = autoStarts
       /\ Done(t, [l EXCEPT !.err = "ok", !.wdFailed = ~ok, !.saved = TRUE, !.starts = 1,
                            !.emitted = Append(@, ListEvent(services'))])
  /\ UNCHANGED <<now, cache, readers, asyncSaves, calls>>

\* setServiceWorkingDirectory (a failure is only warned about), then the record is
\* built and inserted, the snapshot saved, the list event emitted and the deferred
\* auto-start goroutine launched
CreateWorkDir(t) ==
  LET l == loc[t] IN
  /\ pc[t] = "cr_workdir"
  /\ \E ok \in BOOLEAN :
       /\ osSvc' = IF ok THEN [osSvc EXCEPT ![l.id].Params = Put(@, "AppDirectory", DefaultWorkingDir(l.cfg))]
                         ELSE osSvc
       /\ services' = Put(services, l.id, NewService(l.id, l.cfg))
       /\ snapshot' = saveServices(services')
       /\ autoStarts' = autoStarts \cup {[id |-> l.id, delay |-> AutoStartDelay]}
       /\ Done(t, [l EXCEPT !.err = "ok", !.wdFailed = ~ok, !.saved = TRUE,
                            !.emitted = Append(@, ListEvent(services'))])
  /\ UNCHANGED <<now, cache, readers, asyncSaves, calls>>

\* ------------------------------------------------------ waitForServiceState
\* the loop without its early return on a stopped service
WaitOutcomesNoStartFailure(l, target) ==
  IF ~(l.left > 0) THEN {"timeout waiting for service state"}
  ELSE IF l.id \notin DOMAIN osSvc THEN {"failed to query service status"}
  ELSE {"failed to query service status"} \cup
       (IF osSvc[l.id].State = target THEN {"ok"} ELSE {"sleep"})

\* the loop without its deadline
WaitOutcomesNoDeadline(l, target) ==
  IF l.id \notin DOMAIN osSvc THEN {"failed to query service status"}
  ELSE {"failed to query service status"} \cup
       (IF osSvc[l.id].State = target THEN {"ok"}
        ELSE IF target = "Running" /\ osSvc[l.id].State = "Stopped" THEN {"service failed to start"}
        ELSE {"sleep"})

\* what one pass of the loop can come to: the deadline has passed, the query
\* fails, the target state is seen, stopped is seen while waiting for running,
\* or 500 ms of sleep
WaitOutcomes(l, target) ==
  IF ~(l.left > 0) THEN {"timeout waiting for service state"}
  ELSE IF l.id \notin DOMAIN osSvc THEN {"failed to query service status"}
  ELSE {"failed to query service status"} \cup
       (IF osSvc[l.id].State = target THEN {"ok"}
        ELSE IF target = "Running" /\ osSvc[l.id].State = "Stopped" THEN {"service failed to start"}
        ELSE {"sleep"})

\* time.Sleep(d) in a wait of thread t, whose locals become l (a goroutine of
\* GetServices is done before the clock moves on)
Sleep(t, l, d) ==
  /\ asyncSaves = NoAsyncSave
  /\ AdvanceClock(d)
  /\ cache' = AdvanceCache(cache, d)
  /\ AdvanceTasks(d)
  /\ loc' = AdvanceLoc([loc EXCEPT ![t] = l], d)
  /\ UNCHANGED <<pc, writer, calls>>

\* the locals after a pass that queried the service, with outcome r
Polled(l, r) ==
  [l EXCEPT !.polls = @ + 1,
            !.obs = IF r = "failed to query service status" THEN @ ELSE osSvc[l.id].State]

WaitEnter(l, target) ==
  [l EXCEPT !.target = target, !.left = WaitTimeout, !.polls = 0, !.obs = "none"]

\* ------------------------------------------------------------- StartService
\* Lock, the map lookup, mgr.Connect
StartBegin(t, id) ==
  LET l == [Loc0 EXCEPT !.op = "start", !.id = id, !.pre = services] IN
  /\ LockFree
  /\ IF id \notin DOMAIN services
       THEN Done(t, [l EXCEPT !.err = "service does not exist"])
       ELSE \E ok \in BOOLEAN :
              IF ok THEN Goto(t, "st_query", [l EXCEPT !.conn = TRUE, !.session = TRUE])
                    ELSE Done(t, [l EXCEPT !.conn = TRUE, !.err = "failed to connect"])
  /\ UNCHANGED <<now, osSvc, services, cache, snapshot, readers, asyncSaves>>

StartService(t, id) ==
  /\ Idle(t)
  /\ StartBegin(t, id)
  /\ UNCHANGED autoStarts

\* the goroutine of CreateService: time.Sleep(1 s), then StartService
AutoStart(t, task) ==
  /\ Free(t)
  /\ UNCHANGED calls
  /\ task \in autoStarts
  /\ task.delay = 0
  /\ autoStarts' = autoStarts \ {task}
  /\ StartBegin(t, task.id)

\* status.State == svc.Running of StartService
AlreadyRunningIgnored(state) == FALSE
AlreadyRunning(state) == state = "Running"

\* scm.OpenService, windowsService.Query, the already-running check
StartQuery(t) ==
  LET l == loc[t] IN
  /\ pc[t] = "st_query"
  /\ \E open \in BOOLEAN, query \in BOOLEAN :
       IF ~open \/ l.id \notin DOMAIN osSvc
         THEN Done(t, [l EXCEPT !.err = "failed to open service"])
       ELSE IF ~query
         THEN Done(t, [l EXCEPT !.err = "failed to query service status"])
       ELSE IF AlreadyRunning(osSvc[l.id].State)
         THEN Done(t, [l EXCEPT !.err = "service is already running", !.obs = "Running"])
       ELSE Goto(t, "st_start", [l EXCEPT !.handle = TRUE, !.obs = osSvc[l.id].State])
  /\ UNCHANGED <<now, osSvc, services, cache, snapshot, readers, autoStarts, asyncSaves, calls>>

\* windowsService.Start(): the registrar launches the service binary
StartRequest(t) ==
  LET l == loc[t] IN
  /\ pc[t] = "st_start"
  /\ \E ok \in BOOLEAN, p \in Pids :
       IF ok /\ osSvc[l.id].State = "Stopped"
         THEN /\ osSvc' = [osSvc EXCEPT ![l.id].State = "StartPending", ![l.id].ProcessId = p]
              /\ Goto(t, "st_wait", WaitEnter([l EXCEPT !.starts = @ + 1], "Running"))
         ELSE /\ osSvc' = osSvc
              /\ Done(t, [l EXCEPT !.starts = @ + 1, !.err = "failed to start service"])
  /\ UNCHANGED <<now, services, cache, snapshot, readers, autoStarts, asyncSaves, calls>>

\* service.Status = "error" of the failed wait
MarkErrorSkipped(m, id) == m
MarkError(m, id) == [m EXCEPT ![id].Status = "error"]

\* one pass of waitForServiceState(windowsService, svc.Running, 30 s); on an error
\* the record is marked error and saved
StartWait(t) ==
  LET l == loc[t] IN
  /\ pc[t] = "st_wait"
  /\ \E r \in WaitOutcomes(l, "Running") :
       CASE r = "sleep" ->
              /\ Sleep(t, Polled(l, r), PollInterval)
              /\ UNCHANGED <<services, snapshot>>
         [] r = "ok" ->
              /\ Goto(t, "st_final", Polled(l, r))
              /\ UNCHANGED <<now, cache, autoStarts, services, snapshot>>
         [] OTHER ->
              /\ services' = MarkError(services, l.id)
              /\ snapshot' = saveServices(services')
              /\ Done(t, [(IF r = "timeout waiting for service state" THEN l ELSE Polled(l, r))
                            EXCEPT !.err = r, !.saved = TRUE])
              /\ UNCHANGED <<now, cache, autoStarts>>
  /\ UNCHANGED <<osSvc, readers, asyncSaves, calls>>

\* status, _ = windowsService.Query(): a failed query yields the zero Status
StartFinalPid(id, ok) == IF ok /\ id \in DOMAIN osSvc THEN osSvc[id].ProcessId ELSE 0

\* the second Query, then record, cache, snapshot and the status event
StartFinish(t) ==
  LET l == loc[t] IN
  /\ pc[t] = "st_final"
  /\ \E ok \in BOOLEAN :
       LET pid == StartFinalPid(l.id, ok) IN
       /\ services' = [services EXCEPT ![l.id].Status = "running", ![l.id].PID = pid]
       /\ cache' = Put(cache, l.id, CacheEntry("running", pid))
       /\ snapshot' = saveServices(services')
       /\ Done(t, [l EXCEPT !.err = "ok", !.saved = TRUE, !.obsPid = pid,
                            !.lastQuery = IF ok THEN "ok" ELSE "failed",
                            !.emitted = Append(@, StatusEvent(l.id, "running", pid))])
  /\ UNCHANGED <<now, osSvc, readers, autoStarts, asyncSaves, calls>>

\* -------------------------------------------------------------- StopService
\* Lock, the map lookup, mgr.Connect
StopService(t, id) ==
  LET l == [Loc0 EXCEPT !.op = "stop", !.id = id, !.pre = services] IN
  /\ Idle(t)
  /\ LockFree
  /\ IF id \notin DOMAIN services
       THEN Done(t, [l EXCEPT !.err = "service does not exist"])
       ELSE \E ok \in BOOLEAN :
              IF ok THEN Goto(t, "sp_query", [l EXCEPT !.conn = TRUE, !.session = TRUE])
                    ELSE Done(t, [l EXCEPT !.conn = TRUE, !.err = "failed to connect"])
  /\ UNCHANGED <<now, osSvc, services, cache, snapshot, readers, autoStarts, asyncSaves>>

\* status.State == svc.Stopped of StopService
AlreadyStoppedIgnored(state) == FALSE
AlreadyStopped(state) == state = "Stopped"

\* scm.OpenService, windowsService.Query; an already stopped service is only
\* written to the record and the snapshot
StopQuery(t) ==
  LET l == loc[t] IN
  /\ pc[t] = "sp_query"
  /\ \E open \in BOOLEAN, query \in BOOLEAN :
       IF ~open \/ l.id \notin DOMAIN osSvc
         THEN /\ Done(t, [l EXCEPT !.err = "failed to open service"])
              /\ UNCHANGED <<services, snapshot>>
       ELSE IF ~query
         THEN /\ Done(t, [l EXCEPT !.err = "failed to query service status"])
              /\ UNCHANGED <<services, snapshot>>
       ELSE IF AlreadyStopped(osSvc[l.id].State)
         THEN /\ services' = [services EXCEPT ![l.id].Status = "stopped", ![l.id].PID = 0]
              /\ snapshot' = saveServices(services')
              /\ Done(t, [l EXCEPT !.err = "ok", !.obs = osSvc[l.id].State, !.saved = TRUE])
       ELSE /\ Goto(t, "sp_control", [l EXCEPT !.handle = TRUE, !.obs = osSvc[l.id].State])
            /\ UNCHANGED <<services, snapshot>>
  /\ UNCHANGED <<now, osSvc, cache, readers, autoStarts, asyncSaves, calls>>

\* windowsService.Control(svc.Stop) on the registrar: only a running service
\* accepts the stop signal
ControlStop(reg, id, ok) ==
  IF ok /\ id \in DOMAIN reg /\ reg[id].State = "Running"
    THEN [reg EXCEPT ![id].State = "StopPending"]
    ELSE reg

StopControl(t) ==
  LET l == loc[t] IN
  /\ pc[t] = "sp_control"
  /\ \E ok \in BOOLEAN :
       /\ osSvc' = ControlStop(osSvc, l.id, ok)
       /\ IF osSvc' # osSvc
            THEN Goto(t, "sp_wait", WaitEnter([l EXCEPT !.ctl = @ + 1], "Stopped"))
            ELSE Done(t, [l EXCEPT !.ctl = @ + 1, !.err = "failed to send stop signal"])
  /\ UNCHANGED <<now, services, cache, snapshot, readers, autoStarts, asyncSaves, calls>>

\* one pass of waitForServiceState(windowsService, svc.Stopped, 30 s); an error is
\* returned as it is, success goes to record, cache, snapshot and the status event
StopWait(t) ==
  LET l == loc[t] IN
  /\ pc[t] = "sp_wait"
  /\ \E r \in WaitOutcomes(l, "Stopped") :
       CASE r = "sleep" ->
              /\ Sleep(t, Polled(l, r), PollInterval)
              /\ UNCHANGED <<services, snapshot>>
         [] r = "ok" ->
              /\ services' = [services EXCEPT ![l.id].Status = "stopped", ![l.id].PID = 0]
              /\ cache' = Put(cache, l.id, CacheEntry("stopped", 0))
              /\ snapshot' = saveServices(services')
              /\ Done(t, [Polled(l, r) EXCEPT !.err = "ok", !.saved = TRUE,
                            !.emitted = Append(@, StatusEvent(l.id, "stopped", 0))])
              /\ UNCHANGED <<now, autoStarts>>
         [] OTHER ->
              /\ Done(t, [(IF r = "timeout waiting for service state" THEN l ELSE Polled(l, r))
                            EXCEPT !.err = r])
              /\ UNCHANGED <<now, services, cache, snapshot, autoStarts>>
  /\ UNCHANGED <<osSvc, readers, asyncSaves, calls>>

\* ------------------------------------------------------------ DeleteService
\* Lock, the map lookup, mgr.Connect
DeleteService(t, id) ==
  LET l == [Loc0 EXCEPT !.op = "delete", !.id = id, !.pre = services] IN
  /\ Idle(t)
  /\ LockFree
  /\ IF id \notin DOMAIN services
       THEN Done(t, [l EXCEPT !.err = "service does not exist"])
       ELSE \E ok \in BOOLEAN :
              IF ok THEN Goto(t, "dl_query", [l EXCEPT !.conn = TRUE, !.session = TRUE])
                    ELSE Done(t, [l EXCEPT !.conn = TRUE, !.err = "failed to connect"])
  /\ UNCHANGED <<now, osSvc, services, cache, snapshot, readers, autoStarts, asyncSaves>>

\* scm.OpenService, windowsService.Query: a service not seen stopped is stopped first
DeleteQuery(t) ==
  LET l == loc[t] IN
  /\ pc[t] = "dl_query"
  /\ \E open \in BOOLEAN, query \in BOOLEAN :
       IF ~open \/ l.id \notin DOMAIN osSvc
         THEN Done(t, [l EXCEPT !.err = "failed to open service"])
       ELSE IF query /\ osSvc[l.id].State # "Stopped"
         THEN Goto(t, "dl_stop", [l EXCEPT !.handle = TRUE, !.obs = osSvc[l.id].State])
       ELSE Goto(t, "dl_delete", [l EXCEPT !.handle = TRUE,
                                           !.obs = IF query THEN "Stopped" ELSE "none"])
  /\ UNCHANGED <<now, osSvc, services, cache, snapshot, readers, autoStarts, asyncSaves, calls>>

\* windowsService.Control(svc.Stop), result not looked at
DeleteStop(t) ==
  LET l == loc[t] IN
  /\ pc[t] = "dl_stop"
  /\ \E ok \in BOOLEAN :
       /\ osSvc' = ControlStop(osSvc, l.id, ok)
       /\ Goto(t, "dl_wait", WaitEnter([l EXCEPT !.ctl = @ + 1], "Stopped"))
  /\ UNCHANGED <<now, services, cache, snapshot, readers, autoStarts, asyncSaves, calls>>

\* one pass of waitForServiceState(windowsService, svc.Stopped, 30 s), result not
\* looked at
DeleteWait(t) ==
  LET l == loc[t] IN
  /\ pc[t] = "dl_wait"
  /\ \E r \in WaitOutcomes(l, "Stopped") :
       IF r = "sleep"
         THEN Sleep(t, Polled(l, r), PollInterval)
         ELSE /\ Goto(t, "dl_delete",
                      IF r = "timeout waiting for service state" THEN l ELSE Polled(l, r))
              /\ UNCHANGED <<now, cache, autoStarts>>
  /\ UNCHANGED <<osSvc, services, snapshot, readers, asyncSaves, calls>>

\* DeleteService dropping the record whatever windowsService.Delete() returns
DeleteFinishDropsRecord(t) ==
  LET l == loc[t] IN
  /\ pc[t] = "dl_delete"
  /\ \E ok \in BOOLEAN :
       /\ osSvc' = IF ok THEN Remove(osSvc, l.id) ELSE osSvc
       /\ services' = Remove(services, l.id)
       /\ cache' = Remove(cache, l.id)
       /\ snapshot' = saveServices(services')
       /\ Done(t, [l EXCEPT !.err = IF ok THEN "ok" ELSE "failed to delete service",
                            !.saved = TRUE, !.emitted = Append(@, ListEvent(services'))])
  /\ UNCHANGED <<now, readers, autoStarts, asyncSaves, calls>>

\* DeleteService leaving the cache entry behind
DeleteFinishKeepsCache(t) ==
  LET l == loc[t] IN
  /\ pc[t] = "dl_delete"
  /\ \E ok \in BOOLEAN :
       IF ok
         THEN /\ osSvc' = Remove(osSvc, l.id)
              /\ services' = Remove(services, l.id)
              /\ cache' = cache
              /\ snapshot' = saveServices(services')
              /\ Done(t, [l EXCEPT !.err = "ok", !.saved = TRUE,
                                   !.emitted = Append(@, ListEvent(services'))])
         ELSE /\ Done(t, [l EXCEPT !.err = "failed to delete service"])
              /\ UNCHANGED <<osSvc, services, cache, snapshot>>
  /\ UNCHANGED <<now, readers, autoStarts, asyncSaves, calls>>

\* windowsService.Delete(); on success the record and the cache entry go, the
\* snapshot is saved and the list event emitted
DeleteFinish(t) ==
  LET l == loc[t] IN
  /\ pc[t] = "dl_delete"
  /\ \E ok \in BOOLEAN :
       IF ok
         THEN /\ osSvc' = Remove(osSvc, l.id)
              /\ services' = Remove(services, l.id)
              /\ cache' = Remove(cache, l.id)
              /\ snapshot' = saveServices(services')
              /\ Done(t, [l EXCEPT !.err = "ok", !.saved = TRUE,
                                   !.emitted = Append(@, ListEvent(services'))])
         ELSE /\ Done(t, [l EXCEPT !.err = "failed to delete service"])
              /\ UNCHANGED <<osSvc, services, cache, snapshot>>
  /\ UNCHANGED <<now, readers, autoStarts, asyncSaves, calls>>

\* ------------------------------------------------------ SetServiceAutoStart
\* Lock, the map lookup, mgr.Connect
SetServiceAutoStart(t, id, enabled) ==
  LET l == [Loc0 EXCEPT !.op = "autostart", !.id = id, !.enabled = enabled, !.pre = services] IN
  /\ Idle(t)
  /\ LockFree
  /\ IF id \notin DOMAIN services
       THEN Done(t, [l EXCEPT !.err = "service does not exist"])
       ELSE \E ok \in BOOLEAN :
              IF ok THEN Goto(t, "as_update", [l EXCEPT !.conn = TRUE, !.session = TRUE])
                    ELSE Done(t, [l EXCEPT !.conn = TRUE, !.err = "failed to connect"])
  /\ UNCHANGED <<now, osSvc, services, cache, snapshot, readers, autoStarts, asyncSaves>>

\* mgr.StartAutomatic or mgr.StartManual
StartTypeOf(enabled) == IF enabled THEN "automatic" ELSE "manual"

\* scm.OpenService, Config, UpdateConfig with the new start type; then the
\* record's AutoStart is set and the snapshot saved
SetAutoStartUpdate(t) ==
  LET l == loc[t] IN
  /\ pc[t] = "as_update"
  /\ \E r \in {"ok", "failed to open service", "failed to get service configuration",
               "failed to update service configuration"} :
       IF l.id \notin DOMAIN osSvc \/ r = "failed to open service"
         THEN /\ Done(t, [l EXCEPT !.err = "failed to open service"])
              /\ UNCHANGED <<osSvc, services, snapshot>>
       ELSE IF r # "ok"
         THEN /\ Done(t, [l EXCEPT !.err = r])
              /\ UNCHANGED <<osSvc, services, snapshot>>
       ELSE /\ osSvc' = [osSvc EXCEPT ![l.id].StartType = StartTypeOf(l.enabled)]
            /\ services' = [services EXCEPT ![l.id].AutoStart = l.enabled]
            /\ snapshot' = saveServices(services')
            /\ Done(t, [l EXCEPT !.err = "ok", !.saved = TRUE])
  /\ UNCHANGED <<now, cache, readers, autoStarts, asyncSaves, calls>>

\* -------------------------------------------------------------- GetServices
\* the logical status and pid of an OS service state
StatusOf(st) ==
  CASE st.State = "Running"      -> <<"running", st.ProcessId>>
    [] st.State = "Stopped"      -> <<"stopped", 0>>
    [] st.State = "StartPending" -> <<"starting", 0>>
    [] st.State = "StopPending"  -> <<"stopping", st.ProcessId>>
    [] OTHER                     -> <<"error", 0>>

\* RLock, mgr.Connect (at most MaxAsync goroutines of earlier listings are
\* still on their way)
GetServices(t) ==
  LET l == [Loc0 EXCEPT !.op = "list", !.pre = services] IN
  /\ Idle(t)
  /\ asyncSaves.launched + BagCardinality(asyncSaves.bufs) + BagCardinality(asyncSaves.writing) < MaxAsync
  /\ writer = 0
  /\ \E ok \in BOOLEAN :
       IF ok
         THEN /\ pc' = [pc EXCEPT ![t] = "gs_loop"]
              /\ loc' = [loc EXCEPT ![t] = [l EXCEPT !.conn = TRUE, !.session = TRUE, !.todo = DOMAIN services]]
              /\ readers' = readers \cup {t}
         ELSE /\ pc' = [pc EXCEPT ![t] = "done"]
              /\ loc' = [loc EXCEPT ![t] = [l EXCEPT !.conn = TRUE, !.err = "failed to connect"]]
              /\ readers' = readers
  /\ UNCHANGED <<now, osSvc, services, cache, snapshot, writer, autoStarts, asyncSaves>>

\* getServiceRealTimeStatus: the cache entry if there is a live one, else
\* OpenService and Query (ok: both succeed) mapped to a status and pid
getServiceRealTimeStatus(id, ok) ==
  IF CacheHit(id) THEN <<cache[id].Status, cache[id].PID>>
  ELSE IF ok /\ id \in DOMAIN osSvc THEN StatusOf(osSvc[id])
  ELSE <<"error", 0>>

\* one pass of the loop: getServiceRealTimeStatus for one service (a result not
\* from the cache is cached), written to the record
GetServicesStep(t) ==
  LET l == loc[t] IN
  /\ pc[t] = "gs_loop"
  /\ \E id \in l.todo, ok \in BOOLEAN :
       LET r == getServiceRealTimeStatus(id, ok) IN
       /\ cache' = IF CacheHit(id) THEN cache ELSE Put(cache, id, CacheEntry(r[1], r[2]))
       /\ services' = [services EXCEPT ![id].Status = r[1], ![id].PID = r[2]]
       /\ loc' = [loc EXCEPT ![t] = [l EXCEPT !.todo = @ \ {id}]]
  /\ UNCHANGED <<now, osSvc, snapshot, writer, readers, pc, autoStarts, asyncSaves, calls>>

\* go wsm.saveServices(), return, RUnlock
GetServicesEnd(t) ==
  LET l == loc[t] IN
  /\ pc[t] = "gs_loop"
  /\ l.todo = {}
  /\ asyncSaves' = [asyncSaves EXCEPT !.launched = @ + 1]
  /\ pc' = [pc EXCEPT ![t] = "done"]
  /\ loc' = [loc EXCEPT ![t] = [l EXCEPT !.err = "ok", !.session = FALSE]]
  /\ readers' = readers \ {t}
  /\ UNCHANGED <<now, osSvc, services, cache, snapshot, writer, autoStarts, calls>>

\* saveServices in the goroutine launched by GetServices, which holds no lock:
\* json.MarshalIndent of the map as it is now (a result waiting to be taken is
\* the instant of a return: the goroutine steps before it or after it)
AsyncMarshal ==
  /\ asyncSaves.launched > 0
  /\ \A u \in Threads : pc[u] # "done"
  /\ asyncSaves' = [asyncSaves EXCEPT !.launched = @ - 1,
                                       !.bufs = @ (+) SetToBag({saveServices(services)})]
  /\ UNCHANGED <<now, osSvc, services, cache, snapshot, writer, readers, pc, loc, autoStarts, calls>>

\* os.WriteFile of the data marshalled before begins: the file is opened
AsyncWriteBegin ==
  /\ \A u \in Threads : pc[u] # "done"
  /\ \E data \in BagToSet(asyncSaves.bufs) :
       asyncSaves' = [asyncSaves EXCEPT !.bufs = @ (-) SetToBag({data}),
                                        !.writing = @ (+) SetToBag({data})]
  /\ UNCHANGED <<now, osSvc, services, cache, snapshot, writer, readers, pc, loc, autoStarts, calls>>

\* os.WriteFile returns: the file holds the data of the write that ended last
AsyncWriteEnd ==
  /\ \A u \in Threads : pc[u] # "done"
  /\ \E data \in BagToSet(asyncSaves.writing) :
       /\ snapshot' = data
       /\ asyncSaves' = [asyncSaves EXCEPT !.writing = @ (-) SetToBag({data})]
  /\ UNCHANGED <<now, osSvc, services, cache, writer, readers, pc, loc, autoStarts, calls>>

\* ------------------------------------------------------------------ startup
\* the managing process is started again: NewWindowsServiceManager (empty map,
\* empty cache), then App.startup loads the snapshot; the goroutines of the
\* process before are gone
startup(t) ==
  /\ Idle(t)
  /\ \A u \in Threads : pc[u] = "idle"
  /\ LockFree
  /\ services' = loadServices(snapshot)
  /\ cache' = <<>>
  /\ autoStarts' = {}
  /\ asyncSaves' = NoAsyncSave
  /\ pc' = [pc EXCEPT ![t] = "done"]
  /\ loc' = [loc EXCEPT ![t] = [Loc0 EXCEPT !.op = "startup", !.pre = services, !.err = "ok"]]
  /\ UNCHANGED <<now, osSvc, snapshot, writer, readers>>

\* ------------------------------------------------------------ the registrar
\* the service process reports Running
OsRunning(id) ==
  /\ osSvc[id].State = "StartPending"
  /\ osSvc' = [osSvc EXCEPT ![id].State = "Running"]
  /\ UNCHANGED <<now, services, cache, snapshot, writer, readers, pc, loc, autoStarts, asyncSaves, calls>>

\* the service process reports Stopped and ends: a failed launch, the end of a
\* stop, or the workload exiting on its own
OsStopped(id) ==
  /\ osSvc[id].State # "Stopped"
  /\ osSvc' = [osSvc EXCEPT ![id].State = "Stopped", ![id].ProcessId = 0]
  /\ UNCHANGED <<now, services, cache, snapshot, writer, readers, pc, loc, autoStarts, asyncSaves, calls>>

\* time passes
Tick ==
  /\ \A t \in Threads : pc[t] = "idle"
  /\ asyncSaves = NoAsyncSave
  /\ AdvanceClock(1)
  /\ cache' = AdvanceCache(cache, 1)
  /\ AdvanceTasks(1)
  /\ loc' = AdvanceLoc(loc, 1)
  /\ UNCHANGED <<osSvc, services, snapshot, writer, readers, pc, asyncSaves, calls>>

UnknownId == <<"WSM", <<"x">>, 0>>
KnownIds == DOMAIN services \cup {UnknownId}

\* one step of the Manager with callers C, of its goroutines, of the registrar
\* or of the clock
NextOf(C) ==
  \/ \E t \in C, cfg \in Configs : CreateBegin(t, cfg)
  \/ \E t \in C : CreateOsService(t)
  \/ \E t \in C : CreateWrapper(t)
  \/ \E t \in C : CreateImagePath(t)
  \/ \E t \in C : CreateWorkDir(t)
  \/ \E t \in C, id \in KnownIds : StartService(t, id)
  \/ \E t \in C, task \in autoStarts : AutoStart(t, task)
  \/ \E t \in C : StartQuery(t)
  \/ \E t \in C : StartRequest(t)
  \/ \E t \in C : StartWait(t)
  \/ \E t \in C : StartFinish(t)
  \/ \E t \in C, id \in KnownIds : StopService(t, id)
  \/ \E t \in C : StopQuery(t)
  \/ \E t \in C : StopControl(t)
  \/ \E t \in C : StopWait(t)
  \/ \E t \in C, id \in KnownIds : DeleteService(t, id)
  \/ \E t \in C : DeleteQuery(t)
  \/ \E t \in C : DeleteStop(t)
  \/ \E t \in C : DeleteWait(t)
  \/ \E t \in C : DeleteFinish(t)
  \/ \E t \in C, id \in KnownIds, enabled \in BOOLEAN : SetServiceAutoStart(t, id, enabled)
  \/ \E t \in C : SetAutoStartUpdate(t)
  \/ \E t \in C : GetServices(t)
  \/ \E t \in C : GetServicesStep(t)
  \/ \E t \in C : GetServicesEnd(t)
  \/ \E t \in C : startup(t)
  \/ \E t \in C : Return(t)
  \/ AsyncMarshal
  \/ AsyncWriteBegin
  \/ AsyncWriteEnd
  \/ \E id \in DOMAIN osSvc : OsRunning(id)
  \/ \E id \in DOMAIN osSvc : OsStopped(id)
  \/ Tick

\* the callers of the sequential specification: the manager lock lets one
\* mutating operation run at a time, so one caller yields every sequence of them
Callers == {1}

Next == NextOf(Callers)

Spec == Init /\ [][Next]_vars

\* callers on every thread: operations called while another is under way
NextConc == NextOf(Threads)

SpecConc == Init /\ [][NextConc]_vars

\* a step of an operation that has taken the manager lock
OperationStep(t) ==
  \/ CreateOsService(t) \/ CreateWrapper(t) \/ CreateImagePath(t) \/ CreateWorkDir(t)
  \/ StartQuery(t) \/ StartRequest(t) \/ StartWait(t) \/ StartFinish(t)
  \/ StopQuery(t) \/ StopControl(t) \/ StopWait(t)
  \/ DeleteQuery(t) \/ DeleteStop(t) \/ DeleteWait(t) \/ DeleteFinish(t)
  \/ SetAutoStartUpdate(t)
  \/ GetServicesStep(t) \/ GetServicesEnd(t)

\* ------------------------------------------------------- the Host's process
HostVars == <<now, services, cache, snapshot, writer, readers, pc, loc, autoStarts, asyncSaves, calls>>

HostGoes(id, h) ==
  /\ osSvc' = [osSvc EXCEPT ![id].Host = h]
  /\ UNCHANGED HostVars

\* s <- svc.Status{State: state}: the registrar shows the state the Host reported
Reports(id, h, state) ==
  /\ osSvc' = [osSvc EXCEPT ![id].Host = [h EXCEPT !.reported = Append(@, state)],
                            ![id].State = state,
                            ![id].ProcessId = IF state = "Stopped" THEN 0 ELSE @]
  /\ UNCHANGED HostVars

LastReported(h) == IF h.reported = <<>> THEN "none" ELSE h.reported[Len(h.reported)]

\* the registrar launches the service binary, which is the wrapper: main loads
\* the configuration and runs the wrapper as a service
HostLaunch(id) ==
  LET old == osSvc[id].Host
      config == LoadServiceConfigFromRegistry(osSvc, id)
      esw == [NewEmbeddedServiceWrapper(id, config) EXCEPT !.launches = old.launches + 1]
  IN
  /\ osSvc[id].State = "Stopped"
  /\ osSvc[id].BinaryPath = WrapperPath(id)
  /\ old.pc \in {"none", "returned"}
  /\ old.launches < MaxLaunches
  /\ \E p \in Pids :
       osSvc' = [osSvc EXCEPT ![id].Host = IF config.err = "ok" THEN esw ELSE [esw EXCEPT !.pc = "returned"],
                              ![id].State = IF config.err = "ok" THEN "StartPending" ELSE "Stopped",
                              ![id].ProcessId = IF config.err = "ok" THEN p ELSE 0]
  /\ UNCHANGED HostVars

\* Execute: s <- StartPending
HostExecute(id) ==
  LET h == osSvc[id].Host IN
  /\ h.pc = "execute"
  /\ Reports(id, [h EXCEPT !.pc = "start"], "StartPending")

\* startTargetProcess: the log file is opened when a log path is configured,
\* then the child is started
HostStartTarget(id) ==
  LET h == osSvc[id].Host IN
  /\ h.pc = "start"
  /\ \E outcome \in {"log failed", "start failed", "started"} :
       /\ outcome = "log failed" => h.config.LogPath # ""
       /\ HostGoes(id,
            CASE outcome = "log failed"   -> [h EXCEPT !.pc = "start_failed"]
              [] outcome = "start failed" -> [h EXCEPT !.pc = "start_failed", !.logFile = h.config.LogPath # ""]
              [] outcome = "started"      -> [h EXCEPT !.pc = "report_running", !.logFile = h.config.LogPath # "",
                                                       !.process = "running", !.isRunning = TRUE])

\* the launch failed: s <- Stopped, return false, 1
HostStartFailed(id) ==
  LET h == osSvc[id].Host IN
  /\ h.pc = "start_failed"
  /\ Reports(id, [h EXCEPT !.pc = "returned"], "Stopped")

\* s <- Running, accepting Stop and Shutdown
HostReportRunning(id) ==
  LET h == osSvc[id].Host IN
  /\ h.pc = "report_running"
  /\ Reports(id, [h EXCEPT !.pc = "go_monitor"], "Running")

\* go esw.monitorTargetProcess()
HostGoMonitor(id) ==
  LET h == osSvc[id].Host IN
  /\ h.pc = "go_monitor"
  /\ HostGoes(id, [h EXCEPT !.pc = "loop", !.monitor = "wait"])

\* select, case c := <-r: Stop and Shutdown report StopPending and go on to stop
\* the child; Interrogate reports c.CurrentStatus, the state last reported
HostControl(id) ==
  LET h == osSvc[id].Host
      c == Head(h.r)
  IN
  /\ h.pc = "loop"
  /\ h.r # <<>>
  /\ IF c \in {"Stop", "Shutdown"}
       THEN Reports(id, [h EXCEPT !.pc = "stop_target", !.r = Tail(@)], "StopPending")
       ELSE Reports(id, [h EXCEPT !.r = Tail(@)], LastReported(h))

\* the default branch reporting Stopped and going round the loop again
HostDefaultKeepsLooping(id) ==
  LET h == osSvc[id].Host IN
  /\ h.pc = "loop"
  /\ h.r = <<>>
  /\ IF ~h.isRunning
       THEN /\ Len(h.reported) < MaxReports
            /\ Reports(id, h, "Stopped")
       ELSE HostGoes(id, [h EXCEPT !.pc = "sleep"])

\* select, default: with the running flag down, s <- Stopped and return; else sleep
HostDefault(id) ==
  LET h == osSvc[id].Host IN
  /\ h.pc = "loop"
  /\ h.r = <<>>
  /\ IF ~h.isRunning
       THEN Reports(id, [h EXCEPT !.pc = "returned"], "Stopped")
       ELSE HostGoes(id, [h EXCEPT !.pc = "sleep"])

\* time.Sleep(1 * time.Second) is over
HostSleep(id) ==
  LET h == osSvc[id].Host IN
  /\ h.pc = "sleep"
  /\ HostGoes(id, [h EXCEPT !.pc = "loop"])

\* stopTargetProcess: nothing to do unless there is a process and the flag is up
HostStopTarget(id) ==
  LET h == osSvc[id].Host IN
  /\ h.pc = "stop_target"
  /\ HostGoes(id, [h EXCEPT !.pc = IF h.process # "nil" /\ h.isRunning THEN "kill" ELSE "report_stopped"])

\* process.Kill(): the termination of a running child begins; on a child that
\* is gone it fails and the error is not looked at
HostKill(id) ==
  LET h == osSvc[id].Host IN
  /\ h.pc = "kill"
  /\ HostGoes(id, [h EXCEPT !.pc = "stop_wait", !.process = IF @ = "running" THEN "dying" ELSE @])

\* stopTargetProcess going on without process.Wait()
HostStopWaitNoWait(id) ==
  LET h == osSvc[id].Host IN
  /\ h.pc = "stop_wait"
  /\ HostGoes(id, [h EXCEPT !.pc = "stop_flag"])

\* process.Wait() returns once the child has exited
HostStopWait(id) ==
  LET h == osSvc[id].Host IN
  /\ h.pc = "stop_wait"
  /\ h.process = "exited"
  /\ HostGoes(id, [h EXCEPT !.pc = "stop_flag"])

\* esw.isRunning = false
HostStopFlag(id) ==
  LET h == osSvc[id].Host IN
  /\ h.pc = "stop_flag"
  /\ HostGoes(id, [h EXCEPT !.pc = "report_stopped", !.isRunning = FALSE])

\* s <- Stopped, return false, 0
HostReportStopped(id) ==
  LET h == osSvc[id].Host IN
  /\ h.pc = "report_stopped"
  /\ Reports(id, [h EXCEPT !.pc = "returned"], "Stopped")

\* monitorTargetProcess going on without process.Wait()
MonitorWaitNoWait(id) ==
  LET h == osSvc[id].Host IN
  /\ h.pc # "returned"
  /\ h.monitor = "wait"
  /\ HostGoes(id, [h EXCEPT !.monitor = "flag"])

\* monitorTargetProcess: process.Wait() returns once the child has exited
MonitorWait(id) ==
  LET h == osSvc[id].Host IN
  /\ h.pc # "returned"
  /\ h.monitor = "wait"
  /\ h.process = "exited"
  /\ HostGoes(id, [h EXCEPT !.monitor = "flag"])

\* monitorTargetProcess leaving the running flag up
MonitorFlagSkipped(id) ==
  LET h == osSvc[id].Host IN
  /\ h.pc # "returned"
  /\ h.monitor = "flag"
  /\ HostGoes(id, [h EXCEPT !.monitor = "close"])

\* esw.isRunning = false, written without synchronisation: the control loop
\* reads the flag before this step or after it
MonitorFlag(id) ==
  LET h == osSvc[id].Host IN
  /\ h.pc # "returned"
  /\ h.monitor = "flag"
  /\ HostGoes(id, [h EXCEPT !.monitor = "close", !.isRunning = FALSE])

\* the log file is closed if there is one
MonitorClose(id) ==
  LET h == osSvc[id].Host IN
  /\ h.pc # "returned"
  /\ h.monitor = "close"
  /\ HostGoes(id, [h EXCEPT !.monitor = "done", !.logFile = FALSE])

\* the child exits on its own
ChildExit(id) ==
  LET h == osSvc[id].Host IN
  /\ h.pc # "returned"
  /\ h.process = "running"
  /\ HostGoes(id, [h EXCEPT !.process = "exited"])

\* the termination begun by Kill is complete
ChildKilled(id) ==
  LET h == osSvc[id].Host IN
  /\ h.process = "dying"
  /\ HostGoes(id, [h EXCEPT !.process = "exited"])

\* the registrar sends a control request: Interrogate at any time, Stop and
\* Shutdown while the state last reported is Running, which accepts them
ScmControl(id, c) ==
  LET h == osSvc[id].Host IN
  /\ h.pc \notin {"none", "returned"}
  /\ Len(h.r) < MaxRequests
  /\ IF c = "Interrogate"
       THEN Len(h.reported) + Len(h.r) < MaxReports
       ELSE LastReported(h) = "Running"
  /\ HostGoes(id, [h EXCEPT !.r = Append(@, c)])

\* the values of StdoutLog in the Config Store: the Manager never writes one,
\* the Host reads it, so a log path is there when the administrator has put it
StdoutLogs == {"", "out.log"}

\* a service CreateService has set up, not started yet
InitHost ==
  /\ \E cfg \in {c \in Configs : c.ExePath \in ExistingExes}, log \in StdoutLogs :
       LET id == generateServiceName(cfg.Name, 0)
           W == StoreWrites(cfg, DefaultWorkingDir(cfg))
           P == Put(ApplyWrites(<<>>, W, Len(W)), "AppDirectory", DefaultWorkingDir(cfg))
       IN
       /\ osSvc = Put(<<>>, id,
            [BinaryPath |-> WrapperPath(id), StartType |-> "automatic",
             DisplayName |-> cfg.Name, State |-> "Stopped", ProcessId |-> 0,
             Params |-> IF log = "" THEN P ELSE Put(P, "StdoutLog", log),
             Host |-> NoHost])
       /\ services = Put(<<>>, id, NewService(id, cfg))
  /\ snapshot = saveServices(services)
  /\ now = 0
  /\ cache = <<>>
  /\ writer = 0
  /\ readers = {}
  /\ pc = [t \in Threads |-> "idle"]
  /\ loc = [t \in Threads |-> Loc0]
  /\ autoStarts = {}
  /\ asyncSaves = NoAsyncSave
  /\ calls = 0

\* the control loop of the Host, its supervision task, and the child's end
HostStep(id) ==
  \/ HostExecute(id)
  \/ HostStartTarget(id)
  \/ HostStartFailed(id)
  \/ HostReportRunning(id)
  \/ HostGoMonitor(id)
  \/ HostControl(id)
  \/ HostDefault(id)
  \/ HostSleep(id)
  \/ HostStopTarget(id)
  \/ HostKill(id)
  \/ HostStopWait(id)
  \/ HostStopFlag(id)
  \/ HostReportStopped(id)

MonitorStep(id) ==
  \/ MonitorWait(id)
  \/ MonitorFlag(id)
  \/ MonitorClose(id)

NextHost ==
  \/ \E id \in DOMAIN osSvc : HostLaunch(id)
  \/ \E id \in DOMAIN osSvc : HostExecute(id)
  \/ \E id \in DOMAIN osSvc : HostStartTarget(id)
  \/ \E id \in DOMAIN osSvc : HostStartFailed(id)
  \/ \E id \in DOMAIN osSvc : HostReportRunning(id)
  \/ \E id \in DOMAIN osSvc : HostGoMonitor(id)
  \/ \E id \in DOMAIN osSvc : HostControl(id)
  \/ \E id \in DOMAIN osSvc : HostDefault(id)
  \/ \E id \in DOMAIN osSvc : HostSleep(id)
  \/ \E id \in DOMAIN osSvc : HostStopTarget(id)
  \/ \E id \in DOMAIN osSvc : HostKill(id)
  \/ \E id \in DOMAIN osSvc : HostStopWait(id)
  \/ \E id \in DOMAIN osSvc : HostStopFlag(id)
  \/ \E id \in DOMAIN osSvc : HostReportStopped(id)
  \/ \E id \in DOMAIN osSvc : MonitorWait(id)
  \/ \E id \in DOMAIN osSvc : MonitorFlag(id)
  \/ \E id \in DOMAIN osSvc : MonitorClose(id)
  \/ \E id \in DOMAIN osSvc : ChildExit(id)
  \/ \E id \in DOMAIN osSvc : ChildKilled(id)
  \/ \E id \in DOMAIN osSvc, c \in {"Stop", "Shutdown", "Interrogate"} : ScmControl(id, c)

SpecHost == InitHost /\ [][NextHost]_vars

\* the goroutines of the Host are scheduled fairly and a killed child ends
SpecHostFair ==
  /\ SpecHost
  /\ WF_vars(\E id \in DOMAIN osSvc : HostStep(id))
  /\ WF_vars(\E id \in DOMAIN osSvc : MonitorStep(id))
  /\ WF_vars(\E id \in DOMAIN osSvc : ChildKilled(id))

\* ------------------------------------------------------- the status cache
\* the operations of ServiceStatusCache on their own, each under the cache's
\* mutex; the keys, statuses and pids are those the Manager stores
CacheKeys == {generateServiceName(c.Name, ts) : c \in Configs, ts \in {0, 2}}
CacheStatuses == {"running", "stopped", "error"}

\* Get: found with the stored status and pid, or not found
Get(c, serviceName) ==
  IF serviceName \in DOMAIN c /\ ~(c[serviceName].Age > CacheTTL)
    THEN [found |-> TRUE, Status |-> c[serviceName].Status, PID |-> c[serviceName].PID]
    ELSE [found |-> FALSE, Status |-> "none", PID |-> 0]

\* an operation of the cache was called: its name, key and result are kept
CacheCall(op, serviceName, result) ==
  /\ loc' = [loc EXCEPT ![1] = [Loc0 EXCEPT !.op = op, !.id = serviceName,
                                            !.obs = result.Status, !.obsPid = result.PID,
                                            !.err = IF result.found THEN "found" ELSE "not found"]]
  /\ UNCHANGED <<osSvc, services, snapshot, writer, readers, pc, autoStarts, asyncSaves, calls>>

CacheGet(serviceName) ==
  /\ cache' = cache
  /\ now' = now
  /\ CacheCall("Get", serviceName, Get(cache, serviceName))

CacheSet(serviceName, status, pid) ==
  /\ cache' = Put(cache, serviceName, CacheEntry(status, pid))
  /\ now' = now
  /\ CacheCall("Set", serviceName, Get(cache', serviceName))

CacheRemove(serviceName) ==
  /\ cache' = Remove(cache, serviceName)
  /\ now' = now
  /\ CacheCall("Remove", serviceName, Get(cache', serviceName))

CacheClear ==
  /\ cache' = <<>>
  /\ now' = now
  /\ CacheCall("Clear", NoId, Get(cache', NoId))

\* the sweep deleting the entries whose age has reached the TTL
CleanExpiredAtTTL ==
  /\ cache' = [k \in {x \in DOMAIN cache : ~(cache[x].Age >= CacheTTL)} |-> cache[k]]
  /\ now' = now
  /\ CacheCall("CleanExpired", NoId, Get(cache', NoId))

\* CleanExpired, run by the ticker of StartCleanupRoutine: the entries with
\* now.Sub(Timestamp) > ttl are deleted
CleanExpired ==
  /\ cache' = [k \in {x \in DOMAIN cache : ~(cache[x].Age > CacheTTL)} |-> cache[k]]
  /\ now' = now
  /\ CacheCall("CleanExpired", NoId, Get(cache', NoId))

\* time passes for the cache
CacheTick ==
  /\ AdvanceClock(1)
  /\ cache' = AdvanceCache(cache, 1)
  /\ CacheCall("tick", NoId, Get(cache', NoId))

NextCache ==
  \/ \E serviceName \in CacheKeys : CacheGet(serviceName)
  \/ \E serviceName \in CacheKeys, status \in CacheStatuses, pid \in {0} \cup Pids :
       CacheSet(serviceName, status, pid)
  \/ \E serviceName \in CacheKeys : CacheRemove(serviceName)
  \/ CacheClear
  \/ CleanExpired
  \/ CacheTick

SpecCache == Init /\ [][NextCache]_vars

\* ------------------------------------------------------------------ claims
Returned(t, op) == pc[t] = "done" /\ loc[t].op = op
Quiescent == \A t \in Threads : pc[t] \in {"idle", "done"}
WrapperConvention(id) == <<"quoted", CurrentExe, "--service-wrapper", id>>
MaxPolls == WaitTimeout \div PollInterval
Timeout == "timeout waiting for service state"

\* an OS service with its wrapper path, launch parameters and working directory
FullyConfigured(id) ==
  /\ id \in DOMAIN osSvc
  /\ osSvc[id].BinaryPath = WrapperConvention(id)
  /\ {"ExePath", "WorkingDir", "AppDirectory"} \subseteq DOMAIN osSvc[id].Params

\* C1: after CreateService has returned, with or without an error, the OS service
\* of the generated id is fully configured (wrapper binary path, launch parameters
\* in the Config Store, working directory registered) or does not exist.
C1_CreateAtomic ==
  \A t \in Threads :
    Returned(t, "create") => (loc[t].id \notin DOMAIN osSvc \/ FullyConfigured(loc[t].id))

\* C2: whenever no Manager operation is in progress, the ids of the in-memory map
\* are the ids of the OS services the Manager created and did not delete.
C2_MapMatchesRegistrar == Quiescent => DOMAIN services = DOMAIN osSvc

C4_BinaryPathIsWrapper ==
  \A id \in DOMAIN osSvc : osSvc[id].BinaryPath = WrapperConvention(id)

\* C5: a StopService whose query found the service stopped returns success, has
\* sent no stop signal and never waited, and leaves the record stopped with pid 0;
\* this is so whatever the record and the cache were, so also for a repeated call.
C5_StopIdempotent ==
  \A t \in Threads :
    (Returned(t, "stop") /\ loc[t].target = "none" /\ loc[t].obs = "Stopped") =>
      /\ loc[t].err = "ok"
      /\ loc[t].ctl = 0
      /\ loc[t].polls = 0
      /\ services[loc[t].id].Status = "stopped"
      /\ services[loc[t].id].PID = 0
      /\ DOMAIN services = DOMAIN loc[t].pre

C5_Witness ==
  \E t \in Threads :
    /\ Returned(t, "stop") /\ loc[t].target = "none" /\ loc[t].obs = "Stopped"
    /\ loc[t].pre[loc[t].id].Status = "stopped"

\* C6 as claimed, for a service recorded as running whose best-effort stop took
\* effect: a DeleteService whose OS deletion failed returns an error, the map
\* entry stays, and GetServices retrieves the record with its prior status.
C6_DeleteFailureKeepsStatus ==
  \A t \in Threads :
    (/\ Returned(t, "delete") /\ loc[t].err = "failed to delete service"
     /\ loc[t].ctl > 0 /\ loc[t].obs = "Stopped"
     /\ loc[t].pre[loc[t].id].Status = "running") =>
      /\ loc[t].id \in DOMAIN services
      /\ getServiceRealTimeStatus(loc[t].id, TRUE)[1] = loc[t].pre[loc[t].id].Status

\* C6 as amended: a DeleteService whose OS deletion failed returns an error and
\* has itself changed neither the map nor the record, also after a stop was tried
\* first; GetServices then retrieves the record with the status of a live cache
\* entry, else of the OS state, which after a stop that took effect is stopped.
C6_DeleteFailureKeepsRecord ==
  \A t \in Threads :
    (Returned(t, "delete") /\ loc[t].obs # "none" /\ loc[t].err # "ok") =>
      /\ loc[t].err = "failed to delete service"
      /\ loc[t].id \in DOMAIN services
      /\ loc[t].id \in DOMAIN osSvc
      /\ services = loc[t].pre
      /\ loc[t].emitted = <<>>
      /\ (loc[t].ctl > 0 /\ loc[t].obs = "Stopped") =>
           getServiceRealTimeStatus(loc[t].id, TRUE)[1] =
             IF CacheHit(loc[t].id) THEN cache[loc[t].id].Status ELSE "stopped"

C6_Witness ==
  \E t \in Threads :
    /\ Returned(t, "delete") /\ loc[t].err = "failed to delete service"
    /\ loc[t].ctl > 0 /\ loc[t].obs = "Stopped"
    /\ services[loc[t].id].Status = "running"
    /\ ~CacheHit(loc[t].id)

\* C7: a StartService whose wait saw the service stopped returns the start
\* failure, which is not the timeout, at that very pass: before the deadline, and
\* no pass of the wait goes on after stopped was seen.
C7_StoppedIsStartFailure ==
  \A t \in Threads :
    /\ (Returned(t, "start") /\ loc[t].target = "Running" /\ loc[t].obs = "Stopped") =>
         /\ loc[t].err = "service failed to start"
         /\ loc[t].err # Timeout
         /\ loc[t].left > 0
         /\ loc[t].left = WaitTimeout - (loc[t].polls - 1) * PollInterval
    /\ pc[t] = "st_wait" => loc[t].obs # "Stopped"

C7_Witness ==
  \E t \in Threads :
    /\ Returned(t, "start") /\ loc[t].err = "service failed to start"
    /\ loc[t].polls > 1

\* the steps of a StartService or StopService under way
StartStopStep(t) ==
  \/ StartQuery(t) \/ StartRequest(t) \/ StartWait(t) \/ StartFinish(t)
  \/ StopQuery(t) \/ StopControl(t) \/ StopWait(t)

\* C8: a StartService or StopService under way can always take its next step; a
\* pass of its wait that does not end the wait is one more query and 500 ms less
\* to the deadline, so there are at most WaitTimeout / PollInterval queries and
\* none past the deadline; and once returned it has one of the four results and
\* no longer holds the manager lock.
C8_StartStopTerminate ==
  /\ [](\A t \in Threads :
          /\ pc[t] \in {"st_query", "st_start", "st_wait", "st_final", "sp_query", "sp_control", "sp_wait"}
               => (writer = t /\ ENABLED StartStopStep(t))
          /\ loc[t].op \in {"start", "stop"} =>
               /\ loc[t].polls <= MaxPolls
               /\ loc[t].left >= 0
               /\ pc[t] \in {"st_wait", "sp_wait"} =>
                    loc[t].left + loc[t].polls * PollInterval = WaitTimeout
          /\ (Returned(t, "start") \/ Returned(t, "stop")) =>
               /\ writer # t
               /\ loc[t].target # "none" =>
                    loc[t].err \in {"ok", "failed to query service status", "service failed to start", Timeout})
  /\ [][\A t \in Threads :
          (pc[t] \in {"st_wait", "sp_wait"} /\ loc'[t] # loc[t]) =>
            \/ pc'[t] \in {"st_final", "done"}
            \/ /\ pc'[t] = pc[t]
               /\ loc'[t].polls = loc[t].polls + 1
               /\ loc'[t].left = loc[t].left - PollInterval]_vars

C8_Witness ==
  \E t \in Threads : Returned(t, "stop") /\ loc[t].err = Timeout /\ loc[t].polls = MaxPolls

\* C9: the step that ends a successful StartService leaves the record running
\* with the process id the OS reports for the service, the cache entry (running,
\* that pid), the snapshot equal to the map and the event (id, running, that pid)
\* emitted.
C9_StartSuccess ==
  [][\A t \in Threads :
       (pc[t] = "st_final" /\ pc'[t] = "done" /\ loc'[t].err = "ok") =>
         LET id == loc[t].id
             pid == osSvc[id].ProcessId
         IN /\ services'[id].Status = "running"
            /\ services'[id].PID = pid
            /\ cache'[id] = [Status |-> "running", PID |-> pid, Age |-> 0]
            /\ snapshot' = saveServices(services')
            /\ loc'[t].emitted = <<StatusEvent(id, "running", pid)>>]_vars

\* C10: a StartService whose wait ran out (the deadline passed, neither running
\* nor stopped seen) returns the timeout error, not one of the registrar errors,
\* and leaves the record with status error.
C10_StartTimeoutMarksError ==
  \A t \in Threads :
    (Returned(t, "start") /\ loc[t].target = "Running" /\ loc[t].left = 0) =>
      /\ loc[t].err = Timeout
      /\ loc[t].polls = MaxPolls
      /\ loc[t].obs \notin {"Running", "Stopped"}
      /\ services[loc[t].id].Status = "error"

C10_Witness ==
  \E t \in Threads : Returned(t, "start") /\ loc[t].err = Timeout

\* C11: once a StartService or StopService has timed out and returned, a
\* GetServices that comes next reports the service with status error.
C11_ErrorSurvivesListing ==
  \A t \in Threads :
    ((Returned(t, "start") \/ Returned(t, "stop")) /\ loc[t].err = Timeout) =>
      getServiceRealTimeStatus(loc[t].id, TRUE)[1] = "error"

\* C12: a StopService whose wait for stopped timed out returns the timeout and
\* leaves the record with status error.
C12_StopTimeoutMarksError ==
  \A t \in Threads :
    (Returned(t, "stop") /\ loc[t].target = "Stopped" /\ loc[t].left = 0) =>
      /\ loc[t].err = Timeout
      /\ services[loc[t].id].Status = "error"

\* C13: a StartService on an id that is not in the map (the deferred auto-start
\* of a deleted service included), or on a service the OS reports running,
\* returns the error of that case; no step of such a call asks the OS to start
\* the service or changes the registrar, the map, a record, the snapshot or the
\* cache.
C13_StartRejected ==
  /\ [](\A t \in Threads :
          Returned(t, "start") =>
            /\ loc[t].id \notin DOMAIN loc[t].pre => loc[t].err = "service does not exist"
            /\ (loc[t].obs = "Running" /\ loc[t].target = "none") =>
                 loc[t].err = "service is already running"
            /\ loc[t].err \in {"service does not exist", "service is already running"} =>
                 /\ loc[t].starts = 0
                 /\ services = loc[t].pre)
  /\ [][\A t \in Threads :
          (/\ loc'[t].op = "start"
           /\ pc[t] \in {"idle", "st_query"}
           /\ pc'[t] \in {"st_query", "done"}
           /\ pc'[t] # pc[t]
           /\ loc'[t].err \in {"", "service does not exist", "service is already running"}) =>
            /\ osSvc' = osSvc
            /\ services' = services
            /\ cache' = cache
            /\ snapshot' = snapshot]_vars

C13_Witness ==
  \E t \in Threads :
    /\ Returned(t, "start") /\ loc[t].err = "service does not exist"
    /\ loc[t].id # UnknownId

\* the positions inside the lock-held section of a mutating operation, and of
\* GetServices
MutatingLabels ==
  {"cr_create", "cr_wrapper", "cr_image", "cr_workdir", "st_query", "st_start", "st_wait",
   "st_final", "sp_query", "sp_control", "sp_wait", "dl_query", "dl_stop", "dl_wait",
   "dl_delete", "as_update"}
InMutating(t) == pc[t] \in MutatingLabels
InListing(t) == pc[t] = "gs_loop"

\* C14: no two callers are inside mutating operations together and none is
\* inside GetServices together with a mutating operation; while a mutating
\* operation is inside, its poll loop included, neither a listing nor the deferred
\* auto-start can enter.
C14_MutualExclusion ==
  \A t \in Threads :
    /\ InMutating(t) =>
         /\ writer = t
         /\ readers = {}
         /\ \A u \in Threads \ {t} :
              /\ ~InMutating(u)
              /\ ~InListing(u)
              /\ ~ENABLED GetServices(u)
              /\ ~ENABLED (\E task \in autoStarts : AutoStart(u, task))
    /\ InListing(t) => (writer = 0 /\ t \in readers)

C14_Witness ==
  \E t \in Threads, u \in Threads :
    /\ t # u
    /\ pc[t] \in {"st_wait", "sp_wait", "dl_wait"}
    /\ loc[t].polls > 0
    /\ pc[u] = "idle"
    /\ \E task \in autoStarts : task.delay = 0

ValidationErrors == {"executable does not exist", "service name already exists"}

\* C15: a CreateService with an exePath that does not exist, or whose generated
\* id is a key of the map, returns the validation error at once: it has not
\* connected to the registrar, and its step leaves the registrar (OS services and
\* their Config Store keys) and the map as they were.
C15_ValidationNoOsMutation ==
  /\ [](\A t \in Threads :
          Returned(t, "create") =>
            /\ loc[t].cfg.ExePath \notin ExistingExes => loc[t].err = "executable does not exist"
            /\ (loc[t].cfg.ExePath \in ExistingExes /\ loc[t].id \in DOMAIN loc[t].pre) =>
                 loc[t].err = "service name already exists"
            /\ loc[t].err \in ValidationErrors =>
                 (~loc[t].conn /\ loc[t].rollback = "none" /\ services = loc[t].pre))
  /\ [][\A t \in Threads :
          (loc'[t].op = "create" /\ pc'[t] = "done" /\ pc[t] # "done"
             /\ loc'[t].err \in ValidationErrors) =>
            (pc[t] = "idle" /\ osSvc' = osSvc /\ services' = services)]_vars

C15_Witness ==
  \E t \in Threads :
    /\ Returned(t, "create") /\ loc[t].err = "executable does not exist"
    /\ osSvc # <<>>

\* C16: a CreateService that returns an error has changed neither the map, the
\* snapshot nor the cache in any of its steps, has emitted nothing and has
\* scheduled no deferred auto-start.
C16_CreateErrorFrame ==
  /\ [](\A t \in Threads :
          (Returned(t, "create") /\ loc[t].err # "ok") =>
            (services = loc[t].pre /\ loc[t].emitted = <<>> /\ ~loc[t].saved))
  /\ [][\A t \in Threads :
          (/\ loc'[t].op = "create"
           /\ pc'[t] # pc[t]
           /\ (pc'[t] = "done" => loc'[t].err # "ok")) =>
            /\ services' = services
            /\ snapshot' = snapshot
            /\ cache' = cache
            /\ autoStarts' = autoStarts]_vars

C16_Witness ==
  \E t \in Threads :
    /\ Returned(t, "create") /\ loc[t].err = "failed to set service path"
    /\ loc[t].rollback = "failed"

\* C17: two creation requests whose names differ get different ids: the id
\* generated for a CreateService differs from the id of every record in the map
\* that has another name.
C17_IdInjective ==
  \A t \in Threads :
    Returned(t, "create") =>
      \A id \in DOMAIN loc[t].pre :
        loc[t].pre[id].Name # loc[t].cfg.Name => id # loc[t].id

\* the fields of a record that CreateService sets and no operation changes
Identity(s) == <<s.ID, s.Name, s.ExePath, s.Args, s.WorkingDir>>

\* C18: a CreateService whose generated id is a key of the map is rejected by
\* the map check, in one step that leaves the map, the registrar (the first
\* service and its Config Store entries) and the snapshot as they were; and no
\* step of any operation replaces the identity of a record in the map.
C18_NoSilentOverwrite ==
  /\ [](\A t \in Threads :
          (Returned(t, "create") /\ loc[t].cfg.ExePath \in ExistingExes
             /\ loc[t].id \in DOMAIN loc[t].pre) =>
            /\ loc[t].err = "service name already exists"
            /\ services = loc[t].pre)
  /\ [][/\ \A t \in Threads :
             (loc'[t].op = "create" /\ pc[t] = "idle" /\ loc'[t].id \in DOMAIN services
                /\ loc'[t].cfg.ExePath \in ExistingExes) =>
               (pc'[t] = "done" /\ osSvc' = osSvc /\ services' = services /\ snapshot' = snapshot)
        /\ \A id \in DOMAIN services \cap DOMAIN services' :
             Identity(services'[id]) = Identity(services[id])]_vars

C18_Witness ==
  \E t \in Threads :
    /\ Returned(t, "create") /\ loc[t].err = "service name already exists"
    /\ loc[t].pre[loc[t].id].Args # loc[t].cfg.Args

TaskIds == {task.id : task \in autoStarts}

\* C20: a CreateService that succeeded returns with the record stopped and pid 0,
\* the OS service never asked to start, still stopped, and the auto-start only
\* scheduled, a full delay ahead; a scheduled auto-start leaves the schedule only
\* by a StartService that begins with the manager lock free and the delay over
\* (or with the process); and a deferred start that fails leaves the record in
\* the map, its failure showing in the record's status.
C20_AutoStartDeferred ==
  /\ [](\A t \in Threads :
          /\ (Returned(t, "create") /\ loc[t].err = "ok") =>
               /\ services[loc[t].id].Status = "stopped"
               /\ services[loc[t].id].PID = 0
               /\ loc[t].starts = 0
               /\ osSvc[loc[t].id].State = "Stopped"
               /\ osSvc[loc[t].id].ProcessId = 0
               /\ [id |-> loc[t].id, delay |-> AutoStartDelay] \in autoStarts
               /\ writer # t
          /\ (Returned(t, "start") /\ loc[t].id \in DOMAIN loc[t].pre
                /\ loc[t].err \in {Timeout, "service failed to start", "failed to query service status"}
                /\ loc[t].target = "Running") =>
               services[loc[t].id].Status = "error")
  /\ [][\A id \in TaskIds \ TaskIds' :
          \/ \E t \in Threads : pc'[t] = "done" /\ loc'[t].op = "startup"
          \/ /\ LockFree
             /\ \E task \in autoStarts : task.id = id /\ task.delay = 0
             /\ \E t \in Threads :
                  pc[t] = "idle" /\ loc'[t].op = "start" /\ loc'[t].id = id]_vars

C20_Witness ==
  \E t \in Threads :
    /\ Returned(t, "start") /\ loc[t].err = "service failed to start"
    /\ calls = 1
    /\ services[loc[t].id].Status = "error"

C22_AutoStartMirrorsStartType ==
  Quiescent =>
    \A id \in DOMAIN services \cap DOMAIN osSvc :
      services[id].AutoStart <=> (osSvc[id].StartType = "automatic")

\* the events a returned operation has emitted
Emitted(t) == {loc[t].emitted[i] : i \in DOMAIN loc[t].emitted}

\* C23: a Manager operation that returns with the status of its record changed
\* has emitted the status event with the record's new status and pid, and one
\* that returns with a record inserted or removed has emitted the list event.
C23_EveryTransitionNotified ==
  \A t \in Threads :
    (pc[t] = "done" /\ loc[t].op \in {"create", "start", "stop", "delete", "autostart"}) =>
      /\ (/\ loc[t].id \in DOMAIN services \cap DOMAIN loc[t].pre
          /\ services[loc[t].id].Status # loc[t].pre[loc[t].id].Status) =>
           StatusEvent(loc[t].id, services[loc[t].id].Status, services[loc[t].id].PID) \in Emitted(t)
      /\ DOMAIN services # DOMAIN loc[t].pre => ListEvent(services) \in Emitted(t)

\* C25: a live cache entry (younger than the TTL) is a hit and the status read
\* through it is the stored (status, pid), whatever the registrar says; an entry
\* older than the TTL is a miss though it is still in the cache; an entry keeps
\* what was stored while it ages; and StartService and StopService leave the
\* entry they set with the status and pid of the record.
C25_CacheReadYourWrite ==
  /\ [](/\ \A id \in DOMAIN cache :
             /\ cache[id].Age < CacheTTL =>
                  /\ CacheHit(id)
                  /\ \A ok \in BOOLEAN :
                       getServiceRealTimeStatus(id, ok) = <<cache[id].Status, cache[id].PID>>
             /\ cache[id].Age > CacheTTL => ~CacheHit(id)
        /\ \A t \in Threads :
             (pc[t] = "done" /\ loc[t].err = "ok" /\ loc[t].emitted # <<>>
                /\ loc[t].op \in {"start", "stop"}) =>
               /\ CacheHit(loc[t].id)
               /\ cache[loc[t].id] =
                    [Status |-> services[loc[t].id].Status, PID |-> services[loc[t].id].PID, Age |-> 0])
  /\ [][\A id \in DOMAIN cache \cap DOMAIN cache' :
          cache'[id].Age # 0 =>
            /\ cache'[id].Status = cache[id].Status
            /\ cache'[id].PID = cache[id].PID
            /\ cache'[id].Age >= cache[id].Age]_vars

C25_Witness ==
  \E id \in DOMAIN cache :
    /\ cache[id].Age > CacheTTL
    /\ cache[id].Status = "running"
    /\ id \in DOMAIN osSvc /\ osSvc[id].State = "Stopped"

\* C30: an entry of the cache is a hit exactly when its age is less than the
\* TTL, so an entry whose age is the TTL is a miss.
C30_HitIffYoungerThanTTL ==
  \A id \in DOMAIN cache : CacheHit(id) <=> (cache[id].Age < CacheTTL)

\* C24: whenever no Manager operation is in progress and no goroutine of
\* GetServices has its write of the file still to do, the snapshot is the
\* in-memory map.
C24_SnapshotIsMap ==
  (Quiescent /\ asyncSaves = NoAsyncSave) => snapshot = saveServices(services)

\* C29: after a CreateService that succeeded, the configuration a Host loads for
\* the generated id has the given executable and arguments, the given working
\* directory or the executable's directory, and the service's name as display
\* name.
C29_ConfigRoundTrip ==
  \A t \in Threads :
    (Returned(t, "create") /\ loc[t].err = "ok") =>
      LET c == LoadServiceConfigFromRegistry(osSvc, loc[t].id) IN
      /\ c.err = "ok"
      /\ c.ExePath = loc[t].cfg.ExePath
      /\ c.Args = loc[t].cfg.Args
      /\ c.WorkingDir = DefaultWorkingDir(loc[t].cfg)
      /\ c.Name = loc[t].cfg.Name

\* the Host of the one service of SpecHost
TheHost == IF osSvc = <<>> THEN NoHost ELSE osSvc[CHOOSE id \in DOMAIN osSvc : TRUE].Host
HasReported(h, state) == \E i \in 1..Len(h.reported) : h.reported[i] = state
StopRequested(h) == \E i \in 1..Len(h.r) : h.r[i] \in {"Stop", "Shutdown"}

\* C26: the states a Host reports begin with StartPending; Running is reported
\* after StartPending (or again after Running) with the child started;
\* StopPending is reported from Running on a Stop or Shutdown request; Stopped
\* is reported after StartPending only if no child was started, else after
\* Running or StopPending; the step that reports Stopped is the Host's return,
\* and nothing is reported after it.
C26_HostStateMachine ==
  /\ [](\A id \in DOMAIN osSvc :
          LET h == osSvc[id].Host IN
          /\ h.reported # <<>> => h.reported[1] = "StartPending"
          /\ LastReported(h) = "Stopped" <=> (h.pc = "returned" /\ h.reported # <<>>))
  /\ [][\A id \in DOMAIN osSvc \cap DOMAIN osSvc' :
          LET h == osSvc[id].Host
              g == osSvc'[id].Host
          IN
          (g.launches = h.launches /\ g.reported # h.reported) =>
            \E x \in {"StartPending", "Running", "StopPending", "Stopped"} :
              /\ g.reported = Append(h.reported, x)
              /\ CASE x = "StartPending" -> h.reported = <<>>
                   [] x = "Running"      -> /\ LastReported(h) \in {"StartPending", "Running"}
                                            /\ h.process # "nil"
                   [] x = "StopPending"  -> /\ LastReported(h) = "Running"
                                            /\ h.r # <<>> /\ Head(h.r) \in {"Stop", "Shutdown"}
                   [] x = "Stopped"      -> /\ LastReported(h) \in {"StartPending", "Running", "StopPending"}
                                            /\ LastReported(h) = "StartPending" <=> h.process = "nil"
                                            /\ g.pc = "returned"]_vars

C26_Witness ==
  /\ TheHost.pc = "returned"
  /\ TheHost.reported = <<"StartPending", "Running", "Running", "StopPending", "Stopped">>

\* C27: a Host whose last report is Stopped and which had reported Running has a
\* child that has exited.
C27_StoppedAfterChildExit ==
  \A id \in DOMAIN osSvc :
    LET h == osSvc[id].Host IN
    (HasReported(h, "Running") /\ LastReported(h) = "Stopped") => h.process = "exited"

\* Stopped was reported on the Stop path and the supervision task has seen the
\* child's end too
C27_Witness ==
  /\ TheHost.reported = <<"StartPending", "Running", "StopPending", "Stopped">>
  /\ TheHost.monitor = "done"
  /\ TheHost.process = "exited"

\* C28: under fair scheduling, a Host whose last report is Running and whose
\* child has exited, or which holds a Stop or Shutdown request, eventually
\* reports Stopped and returns.
C28_HostEventuallyStops ==
  (LastReported(TheHost) = "Running" /\ (TheHost.process = "exited" \/ StopRequested(TheHost)))
    ~> (TheHost.pc = "returned" /\ LastReported(TheHost) = "Stopped")

C28_Witness ==
  /\ TheHost.pc = "returned"
  /\ TheHost.reported = <<"StartPending", "Running", "Stopped">>
  /\ TheHost.process = "exited"

\* what a Manager without a cache would retrieve for the service now: the
\* status and pid of the registrar's state, or error when the query fails
Uncached(id) ==
  {<<"error", 0>>} \cup (IF id \in DOMAIN osSvc THEN {StatusOf(osSvc[id])} ELSE {})

\* C31: the status and pid a listing writes to a record and returns are those a
\* Manager without a cache would retrieve from the registrar at that moment.
C31_CacheTransparent ==
  [][\A t \in Threads :
       (pc[t] = "gs_loop" /\ loc'[t].todo # loc[t].todo) =>
         \A id \in loc[t].todo \ loc'[t].todo :
           <<services'[id].Status, services'[id].PID>> \in Uncached(id)]_vars

\* C39: a record of the map whose status is not running has pid 0.
C39_PidZeroUnlessRunning ==
  \A id \in DOMAIN services : services[id].Status # "running" => services[id].PID = 0

\* C32: a sweep leaves every Get with the result it had before the sweep (found
\* or not, status and pid, for every key), and deletes no entry that a Get at
\* that instant finds.
C32_SweepKeepsGets ==
  [][loc'[1].op = "CleanExpired" =>
       /\ \A key \in CacheKeys : Get(cache', key) = Get(cache, key)
       /\ \A key \in DOMAIN cache :
            Get(cache, key).found => (key \in DOMAIN cache' /\ cache'[key] = cache[key])]_vars

\* a sweep has deleted an expired entry and has left a live one
C32_Witness ==
  /\ loc[1].op = "CleanExpired"
  /\ \E key \in DOMAIN cache : cache[key].Age = CacheTTL
  /\ \E key \in CacheKeys : key \notin DOMAIN cache

\* C33: the step of CreateService that sets the binary path of the OS service
\* to the wrapper path finds the launch parameters in the Config Store; and
\* whenever the binary path of an OS service is the wrapper path, a Host loads
\* a configuration with the ExePath stored for that id.
C33_ParamsBeforeWrapperPath ==
  /\ [](\A id \in DOMAIN osSvc :
          osSvc[id].BinaryPath = WrapperPath(id) =>
            /\ "ExePath" \in DOMAIN osSvc[id].Params
            /\ LoadServiceConfigFromRegistry(osSvc, id).err = "ok"
            /\ LoadServiceConfigFromRegistry(osSvc, id).ExePath = osSvc[id].Params["ExePath"])
  /\ [][\A id \in DOMAIN osSvc' :
          (osSvc'[id].BinaryPath = WrapperPath(id)
             /\ (id \notin DOMAIN osSvc \/ osSvc[id].BinaryPath # WrapperPath(id))) =>
            /\ id \in DOMAIN osSvc
            /\ "ExePath" \in DOMAIN osSvc[id].Params
            /\ \E t \in Threads : pc[t] = "cr_image" /\ loc[t].id = id
                                  /\ osSvc[id].Params["ExePath"] = loc[t].cfg.ExePath]_vars

\* CreateService has set the wrapper path and has not returned yet
C33_Witness ==
  \E t \in Threads :
    /\ pc[t] = "cr_workdir"
    /\ osSvc[loc[t].id].BinaryPath = WrapperPath(loc[t].id)
    /\ LoadServiceConfigFromRegistry(osSvc, loc[t].id).ExePath = loc[t].cfg.ExePath

\* C34: at most one write of the snapshot file is in progress: no two
\* goroutines of GetServices are writing at once, and no operation writes the
\* file while a goroutine is writing it.
C34_SingleWriter ==
  /\ [](BagCardinality(asyncSaves.writing) <= 1)
  /\ [][\A t \in Threads :
          (loc'[t].saved /\ ~loc[t].saved) => asyncSaves.writing = EmptyBag]_vars

\* C35: a step that changes the map or a record is taken by the thread that
\* holds the manager lock exclusively (the load at startup aside, which has no
\* other thread yet), and the goroutine of GetServices does not read the map
\* while an operation holds the lock exclusively.
C35_LockGuarded ==
  [][/\ (services' # services /\ \A t \in Threads : loc'[t].op # "startup") =>
          \E t \in Threads : writer = t /\ loc'[t] # loc[t]
     /\ asyncSaves'.launched < asyncSaves.launched => writer = 0]_vars

\* C36: a thread that is in no operation (idle, or returned and waiting for
\* its caller) holds no registrar session and no service handle, and a handle
\* is only ever held inside a session.
C36_SessionsScoped ==
  \A t \in Threads :
     /\ pc[t] \in {"idle", "done"} => ~loc[t].session /\ ~loc[t].handle
     /\ loc[t].handle => loc[t].session

\* an operation that had connected has returned with an error
C36_Witness ==
  \E t \in Threads : pc[t] = "done" /\ loc[t].conn /\ loc[t].err # "ok"

\* the running flag of one execution of the Host changes, the child launched
FlagChanges ==
  /\ TheHost.process # "nil"
  /\ TheHost'.launches = TheHost.launches
  /\ TheHost'.isRunning # TheHost.isRunning

\* C37 as stated: after the launch of the child the running flag is changed by
\* the supervision task only, and only from running to not-running.
C37_OnlyMonitorWrites ==
  [][FlagChanges =>
       /\ TheHost.isRunning /\ ~TheHost'.isRunning
       /\ TheHost.monitor = "flag" /\ TheHost'.monitor = "close"]_vars

\* C37: after the launch of the child the running flag is changed only from
\* running to not-running, only once the child has exited, and only by the
\* supervision task or by the control loop at the end of stopTargetProcess.
C37_FlagOnlyLowered ==
  [][FlagChanges =>
       /\ TheHost.isRunning /\ ~TheHost'.isRunning
       /\ TheHost.process = "exited"
       /\ \/ TheHost.monitor = "flag" /\ TheHost'.monitor = "close"
          \/ TheHost.pc = "stop_flag" /\ TheHost'.pc = "report_stopped"]_vars

\* the control loop has lowered the flag itself: the supervision task has not
\* written it yet
C37_Witness ==
  /\ TheHost.pc = "report_stopped"
  /\ ~TheHost.isRunning
  /\ TheHost.monitor \in {"wait", "flag"}

\* C38: a Host that has returned after its child has exited has no log file
\* open; the log file is closed by the supervision task only, and only when it
\* is open.
C38_LogClosedAtReturn ==
  /\ [](TheHost.pc = "returned" /\ TheHost.process = "exited" => ~TheHost.logFile)
  /\ [][TheHost.logFile /\ ~TheHost'.logFile /\ TheHost'.launches = TheHost.launches =>
          TheHost.monitor = "close"]_vars

\* a thread is inside an operation: called, not returned yet
InFlight(t) == pc[t] \notin {"idle", "done"}

\* the positions of the operations in the order they are passed
Stages ==
  <<"cr_create", "cr_wrapper", "cr_image", "cr_workdir", "st_query", "st_start", "st_wait",
    "st_final", "sp_query", "sp_control", "sp_wait", "dl_query", "dl_stop", "dl_wait",
    "dl_delete", "as_update", "gs_loop", "done">>
Stage(label) == CHOOSE i \in 1..Len(Stages) : Stages[i] = label

\* a step of thread t, inside an operation, brings it nearer to its return: a
\* later position, or the same wait with less time to its deadline, or the
\* listing with fewer services to refresh
Advances(t) ==
  \/ Stage(pc'[t]) > Stage(pc[t])
  \/ /\ pc'[t] = pc[t]
     /\ pc[t] \in {"st_wait", "sp_wait", "dl_wait"}
     /\ loc'[t].left < loc[t].left
     /\ loc'[t].left >= 0
  \/ /\ pc'[t] = pc[t]
     /\ pc[t] = "gs_loop"
     /\ loc'[t].todo \subseteq loc[t].todo
     /\ loc'[t].todo # loc[t].todo

\* C40: a thread inside an operation holds the manager lock (it waits for
\* nothing another thread holds) and a step of it or of a goroutine it waits
\* for is possible; the lock is held only by threads inside an operation; and a
\* step that takes the manager lock does not touch the cache, whose lock is
\* taken and released inside single steps of the lock's holder; and every step
\* of an operation brings it nearer to its return, which releases the lock, in
\* a bounded number of steps.
C40_NoDeadlock ==
  /\ [](\A t \in Threads :
          /\ InFlight(t) =>
               /\ writer = t \/ (writer = 0 /\ t \in readers)
               /\ \/ ENABLED OperationStep(t)
                  \/ ENABLED (AsyncMarshal \/ AsyncWriteBegin \/ AsyncWriteEnd)
                  \/ \E u \in Threads : ENABLED Return(u)
          /\ (writer = t \/ t \in readers) => InFlight(t))
  /\ [][(writer = 0 /\ writer' # 0) \/ ~(readers' \subseteq readers) => cache' = cache]_vars
  /\ [][\A t \in Threads :
          InFlight(t) /\ (pc'[t] # pc[t] \/ loc'[t] # loc[t]) => Advances(t)]_vars

\* one caller polls in a wait of StartService while the other is idle, kept
\* out by the lock
C40_Witness ==
  \E t \in Threads, u \in Threads :
    /\ t # u
    /\ pc[t] = "st_wait" /\ loc[t].polls > 1
    /\ pc[u] = "idle"
    /\ ~ENABLED GetServices(u)

====
